---- MODULE Spec2Model ----
(***************************************************************************)
(* A model of the AMPQ client of src/lib/amqp.js: the constructor and its  *)
(* connect chain, connectToTopic (the asynchronous setup, one step per     *)
(* await), the consume callback and pushToTopic.                           *)
(*                                                                         *)
(* Every activity (the constructor chain, one connectToTopic run, one      *)
(* pushToTopic call, one delivery) keeps the log of what it did, in order: *)
(* the transport calls it made, their completions, the events it emitted.  *)
(*                                                                         *)
(* Environment: an `error` listener is attached to the client and does not *)
(* throw, so emit('error', ...) returns; a `message` listener may throw.   *)
(* The transport rejects with Error objects.                               *)
(***************************************************************************)
EXTENDS Integers, Sequences, FiniteSets, TLC

\* The bound of the model: how many times the caller and the broker act on
\* one client (calls of connectToTopic and pushToTopic, deliveries, errors
\* signalled by the Connection or a Channel).
MaxOps == 3

\* The bound of SpecRerun, where the caller calls connectToTopic once itself:
\* how many times the caller and the broker act in all.
MaxRerunOps == 2
MaxLiveOps == 1

VARIABLES
    args,           \* the arguments of `new AMPQ(...)`
    ctor,           \* where the constructor and its connect chain stand
    configuration,  \* this.configuration
    topic,          \* this.topic
    opts,           \* this.opts
    mqConnection,   \* this.mqConnection
    connection,     \* this.connection
    channel,        \* this.channel: 0 (null) or the id of a Channel
    ctorLog,        \* what the constructor and its .then/.catch chain did
    runs,           \* the connectToTopic invocations, in call order
    pushes,         \* the pushToTopic invocations, in call order
    deliveries,     \* the deliveries handed to a consume callback, in order
    consumed,       \* what the consume callbacks did, in order, by delivery tag
    consumers,      \* the channels channel.consume was invoked on, in order
    connListeners,  \* the 'error' listeners registered on the Connection
    connErrors,     \* per error the Connection signalled: its re-emissions
    chanErrors      \* per error a Channel signalled: its re-emissions

vars == <<args, ctor, configuration, topic, opts, mqConnection, connection,
          channel, ctorLog, runs, pushes, deliveries, consumed, consumers,
          connListeners, connErrors, chanErrors>>

fields == <<configuration, topic, opts>>

(***************************************************************************)
(* Values                                                                  *)
(***************************************************************************)

\* this.channel = null
NoChannel == 0

\* The configurations a caller may pass: the one of the spec's scenario, and
\* an absent (falsy) one.
Configurations ==
    { [present |-> TRUE, exchange |-> [name |-> "pillar", type |-> "topic"]],
      [present |-> FALSE] }

Topics == {"orders"}

\* The third argument: not given, or an object holding some of the two flags.
OptsArgs ==
    { [given |-> FALSE] } \cup
    { [given |-> TRUE, consume |-> c, acknowledge |-> a] :
        c \in {"true", "false", "undefined"},
        a \in {"true", "false", "undefined"} }

\* The default value of the parameter `opts`.
DefaultOpts == [consume |-> "true", acknowledge |-> "true"]

\* Strings as sequences of code points: "hi" and "e-acute" (two bytes in UTF-8).
Messages == { <<104, 105>>, <<233>> }

\* Buffer.from(string, 'latin1'): one byte per character.
BufferFrom_Latin1(s) == [i \in DOMAIN s |-> s[i] % 256]

\* Buffer.from(string): the UTF-8 encoding (code points below 2048).
RECURSIVE BufferFrom(_)
BufferFrom(s) ==
    IF s = <<>> THEN <<>>
    ELSE LET c == Head(s)
             bytes == IF c < 128 THEN <<c>>
                      ELSE <<192 + (c \div 64), 128 + (c % 64)>>
         IN  bytes \o BufferFrom(Tail(s))

\* The bodies the broker may deliver.
Bodies == {"{\"id\":1}", "{\"id\":2}", "not-json"}

\* JSON.parse(msg.content.toString()) on each of these bodies.
JSONParse(body) ==
    CASE body = "{\"id\":1}" -> [ok |-> TRUE, value |-> [id |-> 1]]
      [] body = "{\"id\":2}" -> [ok |-> TRUE, value |-> [id |-> 2]]
      [] body = "not-json"   ->
            [ok |-> FALSE, message |-> "Unexpected token o in JSON at position 1"]

\* Object.assign(target, source): source's own fields win.
ObjectAssign(target, source) ==
    [k \in (DOMAIN target) \cup (DOMAIN source) |->
        IF k \in DOMAIN source THEN source[k] ELSE target[k]]

\* Log entries.
Call(name, on, a) == [op |-> "call", name |-> name, on |-> on, args |-> a]
\* A completion: ok is whether the operation succeeded, value what it gave.
Ret(name, ok, value) == [op |-> "ret", name |-> name, ok |-> ok, value |-> value]
Emit(event, payload) == [op |-> "emit", name |-> event, payload |-> payload]

IsCall(e, name) == e.op = "call" /\ e.name = name
IsRet(e, name) == e.op = "ret" /\ e.name = name
IsEmit(e, event) == e.op = "emit" /\ e.name = event

\* The positions in log of the calls of `name`, and of the emissions of `event`.
Calls(log, name) == {i \in DOMAIN log : IsCall(log[i], name)}
Emits(log, event) == {i \in DOMAIN log : IsEmit(log[i], event)}

(***************************************************************************)
(* Init: before `new AMPQ(configuration, topic, opts)` runs                *)
(***************************************************************************)
Init ==
    /\ args \in [configuration : Configurations, topic : Topics, opts : OptsArgs]
    /\ ctor = "new"
    /\ configuration = [present |-> FALSE]
    /\ topic = ""
    /\ opts = [consume |-> "undefined", acknowledge |-> "undefined"]
    /\ mqConnection = "undefined"
    /\ connection = "undefined"
    /\ channel = NoChannel
    /\ ctorLog = <<>>
    /\ runs = <<>>
    /\ pushes = <<>>
    /\ deliveries = <<>>
    /\ consumed = <<>>
    /\ consumers = <<>>
    /\ connListeners = 0
    /\ connErrors = <<>>
    /\ chanErrors = <<>>

(***************************************************************************)
(* The constructor                                                         *)
(***************************************************************************)
\* constructor with mq.connect called before the configuration is checked.
constructor_ConnectsFirst ==
    /\ ctor = "new"
    /\ configuration' = args.configuration
    /\ topic' = args.topic
    /\ opts' = IF args.opts.given
                 THEN [consume |-> args.opts.consume,
                       acknowledge |-> args.opts.acknowledge]
                 ELSE DefaultOpts
    /\ connection' = "null"
    /\ ctor' = IF args.configuration.present THEN "connecting" ELSE "threw"
    /\ ctorLog' = Append(ctorLog, Call("connect", "mq", <<args.configuration>>))
    /\ UNCHANGED <<args, mqConnection, channel, runs, pushes, deliveries, consumed,
                   consumers, connListeners, connErrors, chanErrors>>

\* Lines 15-60: the fields, the hard error on a missing configuration, and
\* the call of mq.connect.
constructor ==
    /\ ctor = "new"
    /\ configuration' = args.configuration
    /\ topic' = args.topic
    /\ opts' = IF args.opts.given
                 THEN [consume |-> args.opts.consume,
                       acknowledge |-> args.opts.acknowledge]
                 ELSE DefaultOpts
    /\ connection' = "null"
    /\ IF ~args.configuration.present
         THEN /\ ctor' = "threw"
              /\ ctorLog' = ctorLog
         ELSE /\ ctor' = "connecting"
              /\ ctorLog' = Append(ctorLog,
                                   Call("connect", "mq", <<args.configuration>>))
    /\ UNCHANGED <<args, mqConnection, channel, runs, pushes, deliveries, consumed,
                   consumers, connListeners, connErrors, chanErrors>>

\* What assertQueue may resolve with: the metadata of the queue.
QueueResults(t) == { [queue |-> t, messageCount |-> n] : n \in {0, 5} }

\* What publish may return: the driver's flow-control indicator.
PublishResults == {TRUE, FALSE}

\* The Error a failing transport operation rejects with.
TransportError(name) == [message |-> name]

\* undefined.createChannel()
TypeErrorCreateChannel ==
    [message |-> "Cannot read property 'createChannel' of undefined"]

NoResult == [queue |-> "", messageCount |-> 0]

(***************************************************************************)
(* connectToTopic: lines 68-174, one step per await                        *)
(***************************************************************************)
\* Lines 75-76, up to the call of createChannel: the run a call of
\* connectToTopic starts. this.mqConnection is undefined until connect has
\* resolved, and then createChannel is read off undefined.
beginRun(by, conn) ==
    IF conn = "undefined"
      THEN [by |-> by, pc |-> "failed", chan |-> NoChannel, result |-> NoResult,
            error |-> TypeErrorCreateChannel.message, log |-> <<>>]
      ELSE [by |-> by, pc |-> "createChannel", chan |-> NoChannel,
            result |-> NoResult, error |-> "",
            log |-> <<Call("createChannel", "connection", <<>>)>>]

\* catch with a handler that emits nothing.
catch_Swallows(by, e) == ctorLog

\* Lines 54-59: the catch of the constructor's chain. A run the caller
\* started rejects to the caller instead.
catch(by, e) ==
    IF by = "constructor"
      THEN Append(ctorLog, Emit("error", e.message))
      ELSE ctorLog

\* Lines 45-53: connect resolved; the connection is stored and connectToTopic
\* is called. `await this.mqConnection` (line 75) awaits a value that is no
\* promise: the run resumes in the same drain of the microtask queue, before
\* any transport completion, so the step runs up to the call of createChannel.
connectResolved ==
    /\ ctor = "connecting"
    /\ ctor' = "connected"
    /\ mqConnection' = "conn"
    /\ connection' = "conn"
    /\ ctorLog' = Append(ctorLog, Ret("connect", TRUE, "conn"))
    /\ runs' = Append(runs, beginRun("constructor", "conn"))
    /\ UNCHANGED <<args, fields, channel, pushes, deliveries, consumed, consumers,
                   connListeners, connErrors, chanErrors>>

\* connectRejected with a handler that connects again.
connectRejected_Retries ==
    /\ ctor = "connecting"
    /\ Len(ctorLog) < 4
    /\ ctor' = "connecting"
    /\ ctorLog' = ctorLog \o
          << Ret("connect", FALSE, TransportError("connect")),
             Emit("error", TransportError("connect").message),
             Call("connect", "mq", <<configuration>>) >>
    /\ UNCHANGED <<args, fields, mqConnection, connection, channel, runs,
                   pushes, deliveries, consumed, consumers, connListeners, connErrors,
                   chanErrors>>

\* Lines 54-59: connect rejected.
connectRejected ==
    /\ ctor = "connecting"
    /\ ctor' = "failed"
    /\ ctorLog' = Append(Append(ctorLog, Ret("connect", FALSE, TransportError("connect"))),
                         Emit("error", TransportError("connect").message))
    /\ UNCHANGED <<args, fields, mqConnection, connection, channel, runs,
                   pushes, deliveries, consumed, consumers, connListeners, connErrors,
                   chanErrors>>

UserRuns == {r \in DOMAIN runs : runs[r].by = "caller"}

\* How many times the caller and the broker have acted so far.
Ops == Cardinality(UserRuns) + Len(pushes) + Len(deliveries)
       + Len(connErrors) + Len(chanErrors)

\* The caller calls connectToTopic itself (as the tests do).
connectToTopic ==
    /\ ctor \in {"connecting", "connected", "failed"}
    /\ Ops < MaxOps
    /\ UserRuns = {}
    /\ runs' = Append(runs, beginRun("caller", mqConnection))
    /\ connection' = mqConnection
    /\ UNCHANGED <<args, ctor, fields, mqConnection, channel, ctorLog, pushes,
                   deliveries, consumed, consumers, connListeners, connErrors, chanErrors>>

\* An awaited step of run r rejected: the run ends there.
stepRejected(r) ==
    /\ runs[r].pc \in {"createChannel", "assertExchange", "assertQueue", "bindQueue"}
    /\ LET e == TransportError(runs[r].pc)
       IN  /\ runs' = [runs EXCEPT ![r].pc = "failed",
                                   ![r].error = e.message,
                                   ![r].log = Append(@, Ret(runs[r].pc, FALSE, e))]
           /\ ctorLog' = catch(runs[r].by, e)
    /\ UNCHANGED <<args, ctor, fields, mqConnection, connection, channel, pushes,
                   deliveries, consumed, consumers, connListeners, connErrors, chanErrors>>

\* Lines 76-97: createChannel resolved with Channel r; the two error
\* listeners are registered and assertExchange is called.
createChannelResolved(r) ==
    /\ runs[r].pc = "createChannel"
    /\ channel' = r
    /\ connListeners' = connListeners + 1
    /\ runs' = [runs EXCEPT
         ![r].pc = "assertExchange",
         ![r].chan = r,
         ![r].log = @ \o
            << Ret("createChannel", TRUE, r),
               Call("on", "connection", <<"error">>),
               Call("on", r, <<"error">>),
               Call("assertExchange", r,
                    <<configuration.exchange.name, configuration.exchange.type>>) >>]
    /\ UNCHANGED <<args, ctor, fields, mqConnection, connection, ctorLog, pushes,
                   deliveries, consumed, consumers, connErrors, chanErrors>>

\* assertExchangeResolved with the queue bound before it is asserted.
assertExchangeResolved_BindsFirst(r) ==
    /\ runs[r].pc = "assertExchange"
    /\ runs' = [runs EXCEPT
         ![r].pc = "assertQueue",
         ![r].log = @ \o
            << Ret("assertExchange", TRUE, "ok"),
               Call("bindQueue", channel,
                    <<topic, configuration.exchange.name, topic>>),
               Call("assertQueue", channel, <<topic>>) >>]
    /\ UNCHANGED <<args, ctor, fields, mqConnection, connection, channel, ctorLog,
                   pushes, deliveries, consumed, consumers, connListeners, connErrors,
                   chanErrors>>

\* Lines 94-104: assertExchange resolved; assertQueue is called.
assertExchangeResolved(r) ==
    /\ runs[r].pc = "assertExchange"
    /\ runs' = [runs EXCEPT
         ![r].pc = "assertQueue",
         ![r].log = @ \o << Ret("assertExchange", TRUE, "ok"),
                            Call("assertQueue", channel, <<topic>>) >>]
    /\ UNCHANGED <<args, ctor, fields, mqConnection, connection, channel, ctorLog,
                   pushes, deliveries, consumed, consumers, connListeners, connErrors,
                   chanErrors>>

\* assertQueueResolved with the `system` event emitted before the bind.
assertQueueResolved_EmitsEarly(r, res) ==
    /\ runs[r].pc = "assertQueue"
    /\ runs' = [runs EXCEPT
         ![r].pc = "bindQueue",
         ![r].result = res,
         ![r].log = @ \o
            << Ret("assertQueue", TRUE, res),
               Emit("system", res),
               Call("bindQueue", channel,
                    <<topic, configuration.exchange.name, topic>>) >>]
    /\ UNCHANGED <<args, ctor, fields, mqConnection, connection, channel, ctorLog,
                   pushes, deliveries, consumed, consumers, connListeners, connErrors,
                   chanErrors>>

\* Lines 104-115: assertQueue resolved with res; bindQueue is called.
assertQueueResolved(r, res) ==
    /\ runs[r].pc = "assertQueue"
    /\ runs' = [runs EXCEPT
         ![r].pc = "bindQueue",
         ![r].result = res,
         ![r].log = @ \o
            << Ret("assertQueue", TRUE, res),
               Call("bindQueue", channel,
                    <<topic, configuration.exchange.name, topic>>) >>]
    /\ UNCHANGED <<args, ctor, fields, mqConnection, connection, channel, ctorLog,
                   pushes, deliveries, consumed, consumers, connListeners, connErrors,
                   chanErrors>>

\* bindQueueResolved with a `system` event that does not carry the result.
bindQueueResolved_EmitsStale(r) ==
    /\ runs[r].pc = "bindQueue"
    /\ LET done == << Ret("bindQueue", TRUE, "ok"), Emit("system", NoResult) >>
           consume == opts.consume = "true"
       IN  /\ runs' = [runs EXCEPT
                ![r].pc = "done",
                ![r].log = @ \o done \o
                   (IF consume THEN <<Call("consume", channel, <<topic>>)>>
                               ELSE <<>>)]
           /\ consumers' = IF consume THEN Append(consumers, channel)
                                      ELSE consumers
    /\ UNCHANGED <<args, ctor, fields, mqConnection, connection, channel, ctorLog,
                   pushes, deliveries, consumed, connListeners, connErrors,
                   chanErrors>>

\* bindQueueResolved without the registration of the consumer.
bindQueueResolved_SkipsConsume(r) ==
    /\ runs[r].pc = "bindQueue"
    /\ runs' = [runs EXCEPT
          ![r].pc = "done",
          ![r].log = @ \o << Ret("bindQueue", TRUE, "ok"),
                             Emit("system", runs[r].result) >>]
    /\ UNCHANGED <<args, ctor, fields, mqConnection, connection, channel, ctorLog,
                   pushes, deliveries, consumed, consumers, connListeners,
                   connErrors, chanErrors>>

\* Lines 111-173: bindQueue resolved; the result of assertQueue is emitted
\* and, with opts.consume === true, the consumer is attached.
bindQueueResolved(r) ==
    /\ runs[r].pc = "bindQueue"
    /\ LET done == << Ret("bindQueue", TRUE, "ok"), Emit("system", runs[r].result) >>
           consume == opts.consume = "true"
       IN  /\ runs' = [runs EXCEPT
                ![r].pc = "done",
                ![r].log = @ \o done \o
                   (IF consume THEN <<Call("consume", channel, <<topic>>)>>
                               ELSE <<>>)]
           /\ consumers' = IF consume THEN Append(consumers, channel)
                                      ELSE consumers
    /\ UNCHANGED <<args, ctor, fields, mqConnection, connection, channel, ctorLog,
                   pushes, deliveries, consumed, connListeners, connErrors, chanErrors>>

(***************************************************************************)
(* The error listeners: lines 78-89                                        *)
(***************************************************************************)
ConnectionError == [message |-> "Heartbeat timeout"]
ChannelError == [message |-> "PRECONDITION_FAILED"]

\* The Connection signals an error: every listener registered so far
\* (line 78) re-emits it.
connectionError ==
    /\ mqConnection = "conn"
    /\ Ops < MaxOps
    /\ connErrors' = Append(connErrors,
          [log |-> [i \in 1..connListeners |-> Emit("error", ConnectionError)]])
    /\ UNCHANGED <<args, ctor, fields, mqConnection, connection, channel, ctorLog,
                   runs, pushes, deliveries, consumed, consumers, connListeners, chanErrors>>

Channels == {runs[r].chan : r \in DOMAIN runs} \ {NoChannel}

\* Channel c signals an error: its listener (line 87) re-emits it.
channelError(c) ==
    /\ c \in Channels
    /\ Ops < MaxOps
    /\ chanErrors' = Append(chanErrors,
          [chan |-> c, log |-> <<Emit("error", ChannelError)>>])
    /\ UNCHANGED <<args, ctor, fields, mqConnection, connection, channel, ctorLog,
                   runs, pushes, deliveries, consumed, consumers, connListeners, connErrors>>

(***************************************************************************)
(* The consume callback: lines 128-172                                     *)
(***************************************************************************)
\* consumeCallback with the ack at the end of the try block, not in finally.
consumeCallback_AckInTry(msg, listenerThrows) ==
    LET parsed == JSONParse(msg.content)
        thrown == (~parsed.ok) \/ listenerThrows
        e == IF parsed.ok THEN [message |-> "listener failed"]
                          ELSE [message |-> parsed.message]
    IN  (IF parsed.ok
           THEN <<Emit("message", ObjectAssign([message |-> parsed.value], msg))>>
           ELSE <<>>)
        \o (IF thrown
              THEN <<Emit("error", [name |-> "SyntaxError", message |-> e.message])>>
              ELSE IF opts.acknowledge = "true"
                     THEN <<Call("ack", channel, <<msg>>)>>
                     ELSE <<>>)

\* consumeCallback with a catch block that emits nothing.
consumeCallback_SilentCatch(msg, listenerThrows) ==
    LET parsed == JSONParse(msg.content)
    IN  (IF parsed.ok
           THEN <<Emit("message", ObjectAssign([message |-> parsed.value], msg))>>
           ELSE <<>>)
        \o (IF opts.acknowledge = "true"
              THEN <<Call("ack", channel, <<msg>>)>>
              ELSE <<>>)

\* consumeCallback with an unconditional ack in finally.
consumeCallback_AlwaysAcks(msg, listenerThrows) ==
    LET parsed == JSONParse(msg.content)
        thrown == (~parsed.ok) \/ listenerThrows
        e == IF parsed.ok THEN [message |-> "listener failed"]
                          ELSE [message |-> parsed.message]
    IN  (IF parsed.ok
           THEN <<Emit("message", ObjectAssign([message |-> parsed.value], msg))>>
           ELSE <<>>)
        \o (IF thrown
              THEN <<Emit("error", [name |-> "SyntaxError", message |-> e.message])>>
              ELSE <<>>)
        \o <<Call("ack", channel, <<msg>>)>>

\* consumeCallback with the emission outside the try block: what a listener
\* throws is not caught.
consumeCallback_EmitOutsideTry(msg, listenerThrows) ==
    LET parsed == JSONParse(msg.content)
        outgoingMessage == ObjectAssign([message |-> parsed.value], msg)
        catch_ == IF ~parsed.ok
                    THEN <<Emit("error", [name |-> "SyntaxError",
                                          message |-> parsed.message])>>
                    ELSE <<>>
        finally == IF opts.acknowledge = "true"
                     THEN <<Call("ack", channel, <<msg>>)>>
                     ELSE <<>>
        after == IF parsed.ok THEN <<Emit("message", outgoingMessage)>> ELSE <<>>
    IN  catch_ \o finally \o after

\* consumeCallback with the acknowledgement issued before the body is
\* handled.
consumeCallback_AckFirst(msg, listenerThrows) ==
    LET parsed == JSONParse(msg.content)
        outgoingMessage == ObjectAssign([message |-> parsed.value], msg)
        ack == IF opts.acknowledge = "true"
                 THEN <<Call("ack", channel, <<msg>>)>>
                 ELSE <<>>
        try == IF parsed.ok THEN <<Emit("message", outgoingMessage)>> ELSE <<>>
        e == IF parsed.ok THEN [message |-> "listener failed"]
                          ELSE [message |-> parsed.message]
        catch_ == IF (~parsed.ok) \/ listenerThrows
                    THEN <<Emit("error", [name |-> "SyntaxError",
                                          message |-> e.message])>>
                    ELSE <<>>
    IN  ack \o try \o catch_

\* What the callback does with msg; listenerThrows: a `message` listener
\* throws during the emission.
consumeCallback(msg, listenerThrows) ==
    LET parsed == JSONParse(msg.content)
        outgoingMessage == ObjectAssign([message |-> parsed.value], msg)
        try == IF parsed.ok THEN <<Emit("message", outgoingMessage)>> ELSE <<>>
        thrown == (~parsed.ok) \/ listenerThrows
        e == IF parsed.ok THEN [message |-> "listener failed"]
                          ELSE [message |-> parsed.message]
        catch_ == IF thrown
                    THEN <<Emit("error", [name |-> "SyntaxError",
                                          message |-> e.message])>>
                    ELSE <<>>
        finally == IF opts.acknowledge = "true"
                     THEN <<Call("ack", channel, <<msg>>)>>
                     ELSE <<>>
    IN  try \o catch_ \o finally

\* The delivery record of a body: the content and the broker's metadata.
DeliveryRecord(body, tag) ==
    [content |-> body, fields |-> [deliveryTag |-> tag, routingKey |-> topic]]

\* The entries of log, each with the tag of the delivery it handles.
RECURSIVE Tagged(_, _)
Tagged(log, tag) ==
    IF log = <<>> THEN <<>>
    ELSE <<[tag |-> tag, entry |-> Head(log)]>> \o Tagged(Tail(log), tag)

\* The callback of consumer i is invoked with msg and runs to its end,
\* synchronously.
invokeCallback(i, msg, listenerThrows) ==
    /\ i \in DOMAIN consumers
    /\ Ops < MaxOps
    /\ listenerThrows => JSONParse(msg.content).ok
    /\ LET log == consumeCallback(msg, listenerThrows)
       IN  /\ deliveries' = Append(deliveries,
                 [msg |-> msg, on |-> consumers[i], threw |-> listenerThrows,
                  log |-> log])
           /\ consumed' = consumed \o Tagged(log, msg.fields.deliveryTag)
    /\ UNCHANGED <<args, ctor, fields, mqConnection, connection, channel, ctorLog,
                   runs, pushes, consumers, connListeners, connErrors, chanErrors>>

\* The broker hands a delivery with this body to consumer i.
deliver(i, body, listenerThrows) ==
    invokeCallback(i, DeliveryRecord(body, Len(deliveries) + 1), listenerThrows)

\* What a record's own `message` field holds: a value of the driver's.
OwnMessage(body) == [id |-> 0]

\* The same, when the record the driver hands over carries a field of its
\* own named `message`.
deliverCarryingMessage(i, body, listenerThrows) ==
    invokeCallback(i,
        ObjectAssign(DeliveryRecord(body, Len(deliveries) + 1),
                     [message |-> OwnMessage(body)]),
        listenerThrows)

(***************************************************************************)
(* pushToTopic: lines 183-227                                              *)
(***************************************************************************)
\* History, for the record of a call: whether a Channel existed and whether
\* a setup had completed when the call was made.
Now == [channel |-> channel # NoChannel,
        setup |-> \E r \in DOMAIN runs : runs[r].pc = "done"]

NoChannelMessage ==
    "No open communication channel found. Was the connection to the message queue server successful?"

\* pushToTopic with the guard on this.connection instead of this.channel.
pushToTopic_GuardsConnection(message) ==
    /\ ctor \in {"connecting", "connected", "failed"}
    /\ Ops < MaxOps
    /\ pushes' = Append(pushes,
         IF connection # "conn"
           THEN [message |-> message, at |-> Now, pc |-> "returned",
                 ret |-> "false",
                 log |-> <<Emit("error", NoChannelMessage)>>]
           ELSE [message |-> message, at |-> Now, pc |-> "publish",
                 ret |-> "pending",
                 log |-> <<Call("publish", channel,
                                <<configuration.exchange.name, topic,
                                  BufferFrom(message)>>)>>])
    /\ UNCHANGED <<args, ctor, fields, mqConnection, connection, channel, ctorLog,
                   runs, deliveries, consumed, consumers, connListeners, connErrors,
                   chanErrors>>

\* Lines 190-210: the guard, and the call of publish.
pushToTopic(message) ==
    /\ ctor \in {"connecting", "connected", "failed"}
    /\ Ops < MaxOps
    /\ pushes' = Append(pushes,
         IF channel = NoChannel
           THEN [message |-> message, at |-> Now, pc |-> "returned",
                 ret |-> "false",
                 log |-> <<Emit("error", NoChannelMessage)>>]
           ELSE [message |-> message, at |-> Now, pc |-> "publish",
                 ret |-> "pending",
                 log |-> <<Call("publish", channel,
                                <<configuration.exchange.name, topic,
                                  BufferFrom(message)>>)>>])
    /\ UNCHANGED <<args, ctor, fields, mqConnection, connection, channel, ctorLog,
                   runs, deliveries, consumed, consumers, connListeners, connErrors,
                   chanErrors>>

\* Lines 206-226: publish returned result; it is emitted with the message.
publishResolved(p, result) ==
    /\ pushes[p].pc = "publish"
    /\ pushes' = [pushes EXCEPT
         ![p].pc = "returned",
         ![p].ret = "true",
         ![p].log = @ \o
            << Ret("publish", TRUE, result),
               Emit("system", [pushResult |-> result,
                               message |-> pushes[p].message]) >>]
    /\ UNCHANGED <<args, ctor, fields, mqConnection, connection, channel, ctorLog,
                   runs, deliveries, consumed, consumers, connListeners, connErrors,
                   chanErrors>>

Next ==
    \/ constructor
    \/ connectResolved
    \/ connectRejected
    \/ \E r \in DOMAIN runs : stepRejected(r)
    \/ \E r \in DOMAIN runs : createChannelResolved(r)
    \/ \E r \in DOMAIN runs : assertExchangeResolved(r)
    \/ \E r \in DOMAIN runs : \E res \in QueueResults(topic) : assertQueueResolved(r, res)
    \/ \E r \in DOMAIN runs : bindQueueResolved(r)
    \/ connectionError
    \/ \E c \in Channels : channelError(c)
    \/ \E i \in DOMAIN consumers : \E body \in Bodies : \E t \in BOOLEAN :
          deliver(i, body, t)
    \/ \E m \in Messages : pushToTopic(m)
    \/ \E p \in DOMAIN pushes : \E res \in PublishResults : publishResolved(p, res)

(***************************************************************************)
(* Properties                                                              *)
(***************************************************************************)
SetupSteps == <<"createChannel", "assertExchange", "assertQueue", "bindQueue">>

IsSetupCall(e) ==
    e.op = "call" /\ \E k \in DOMAIN SetupSteps : e.name = SetupSteps[k]

\* The names of the setup steps a run invoked, in order.
SetupCalls(log) ==
    LET calls == SelectSeq(log, IsSetupCall)
    IN  [i \in DOMAIN calls |-> calls[i].name]

\* Step `name` completed successfully before position i of log.
CompletedBefore(log, name, i) ==
    \E j \in 1..(i - 1) : IsRet(log[j], name) /\ log[j].ok

CtorRuns == {r \in DOMAIN runs : runs[r].by = "constructor"}

\* Some activity other than a connectToTopic run or a pushToTopic call
\* emitted this event.
EmittedElsewhere(event) ==
    \/ Emits(ctorLog, event) # {}
    \/ \E d \in DOMAIN deliveries : Emits(deliveries[d].log, event) # {}
    \/ \E e \in DOMAIN connErrors : Emits(connErrors[e].log, event) # {}
    \/ \E e \in DOMAIN chanErrors : Emits(chanErrors[e].log, event) # {}

\* calls, the setup steps log invoked, are the first steps of SetupSteps, and
\* each but the first was invoked after the one before it had succeeded.
InSetupOrder(log, calls) ==
    /\ Len(calls) >= 1
    /\ calls = SubSeq(SetupSteps, 1, Len(calls))
    /\ \A i \in DOMAIN log : \A k \in 2..Len(SetupSteps) :
          IsCall(log[i], SetupSteps[k]) =>
              CompletedBefore(log, SetupSteps[k - 1], i)

\* C1: once connect has succeeded, the setup the constructor started invokes
\* createChannel, assertExchange, assertQueue and bindQueue in that order,
\* each at most once and only after the one before it completed
\* successfully, and all four exactly once by the time it completes.
C1_SetupSequence ==
    /\ ctor = "connected" => Cardinality(CtorRuns) = 1
    /\ \A r \in CtorRuns : InSetupOrder(runs[r].log, SetupCalls(runs[r].log))
    /\ \A r \in CtorRuns :
          runs[r].pc = "done" => SetupCalls(runs[r].log) = SetupSteps

\* The constructor's setup ran to its end.
C1_Witness ==
    \E r \in CtorRuns : runs[r].pc = "done" /\ SetupCalls(runs[r].log) = SetupSteps

\* Some run's bindQueue has completed.
BindCompleted ==
    \E r \in DOMAIN runs :
        CompletedBefore(runs[r].log, "bindQueue", Len(runs[r].log) + 1)

SystemEmitted ==
    \/ \E r \in DOMAIN runs : Emits(runs[r].log, "system") # {}
    \/ \E p \in DOMAIN pushes : Emits(pushes[p].log, "system") # {}
    \/ EmittedElsewhere("system")

\* C2 (as claimed): no `system` event is emitted before the bindQueue step of
\* setup has completed.
C2_NoSystemBeforeBind == SystemEmitted => BindCompleted

\* C2 (amended): the setup's `system` event is emitted only after that
\* setup's bindQueue completed, and a pushToTopic emits its `system` event
\* only when a Channel existed at the call (createChannel had completed),
\* which may be before bindQueue completes.
C2_SystemAfterChannel ==
    /\ \A r \in DOMAIN runs : \A i \in Emits(runs[r].log, "system") :
          CompletedBefore(runs[r].log, "bindQueue", i)
    /\ \A p \in DOMAIN pushes :
          Emits(pushes[p].log, "system") # {} =>
              /\ pushes[p].at.channel
              /\ \E r \in DOMAIN runs :
                    CompletedBefore(runs[r].log, "createChannel",
                                    Len(runs[r].log) + 1)
    /\ ~EmittedElsewhere("system")

\* A pushToTopic has emitted its `system` event while bindQueue is pending.
C2_Witness ==
    /\ ~BindCompleted
    /\ \E r \in CtorRuns : runs[r].pc = "bindQueue"
    /\ \E p \in DOMAIN pushes : Emits(pushes[p].log, "system") # {}


\* The deliveries whose body parses, and those whose body does not.
WellFormed == {d \in DOMAIN deliveries : JSONParse(deliveries[d].msg.content).ok}
Malformed == DOMAIN deliveries \ WellFormed

\* log holds exactly one call of channel.ack, with msg, as its last entry.
AckedOnce(log, msg) ==
    /\ Calls(log, "ack") = {Len(log)}
    /\ Len(log) >= 1
    /\ log[Len(log)].args = <<msg>>

\* C3: with opts.acknowledge true, the consume callback invokes channel.ack
\* exactly once per delivery, with that delivery, whether its body parses or
\* not.
C3_AckExactlyOnce ==
    opts.acknowledge = "true" =>
        \A d \in DOMAIN deliveries :
            AckedOnce(deliveries[d].log, deliveries[d].msg)

\* Acknowledging is on; one delivery parsed and another did not.
C3_Witness ==
    /\ opts.acknowledge = "true"
    /\ WellFormed # {}
    /\ Malformed # {}

\* The broker may hand the next delivery to a consumer.
DeliverNext ==
    \E i \in DOMAIN consumers : \E body \in Bodies : deliver(i, body, FALSE)

\* C4: a delivery whose body does not parse gets exactly one `error` event
\* (a SyntaxError) and no `message` event, is still acknowledged when
\* opts.acknowledge is true, and leaves the consumer able to take the next
\* delivery.
C4_MalformedDelivery ==
    \A d \in Malformed :
        LET log == deliveries[d].log
        IN  /\ Cardinality(Emits(log, "error")) = 1
            /\ IsEmit(log[1], "error")
            /\ log[1].payload.name = "SyntaxError"
            /\ log[1].payload.message = JSONParse(deliveries[d].msg.content).message
            /\ Emits(log, "message") = {}
            /\ opts.acknowledge = "true" => AckedOnce(log, deliveries[d].msg)
            /\ Ops < MaxOps => ENABLED DeliverNext

\* A malformed delivery was acknowledged, and a later delivery was handled.
C4_Witness ==
    /\ opts.acknowledge = "true"
    /\ \E d \in Malformed : \E d2 \in WellFormed :
          /\ d < d2
          /\ Emits(deliveries[d2].log, "message") # {}

\* C5: with opts.acknowledge false, channel.ack is never invoked, whatever
\* the parse outcome.
C5_NoAckWhenDisabled ==
    opts.acknowledge = "false" =>
        \A d \in DOMAIN deliveries : Calls(deliveries[d].log, "ack") = {}

\* Acknowledging is off; one delivery parsed and another did not.
C5_Witness ==
    /\ opts.acknowledge = "false"
    /\ WellFormed # {}
    /\ Malformed # {}

\* C6: a pushToTopic call made while this.channel is null returns false,
\* emits exactly one `error` event and nothing else: publish is not invoked
\* and no `system` event is emitted.
C6_PushWithoutChannel ==
    \A p \in DOMAIN pushes :
        ~pushes[p].at.channel =>
            /\ pushes[p].pc = "returned"
            /\ pushes[p].ret = "false"
            /\ Len(pushes[p].log) = 1
            /\ IsEmit(pushes[p].log[1], "error")
            /\ pushes[p].log[1].payload = NoChannelMessage

\* pushToTopic was called after connect resolved and before a Channel existed.
C6_Witness ==
    /\ ctor = "connected"
    /\ \E p \in DOMAIN pushes : ~pushes[p].at.channel /\ pushes[p].ret = "false"

\* The string a UTF-8 byte sequence decodes to (one- and two-byte forms).
RECURSIVE Utf8Decode(_)
Utf8Decode(bytes) ==
    IF bytes = <<>> THEN <<>>
    ELSE IF bytes[1] < 128
      THEN <<bytes[1]>> \o Utf8Decode(Tail(bytes))
      ELSE <<(bytes[1] - 192) * 64 + (bytes[2] - 128)>>
           \o Utf8Decode(Tail(Tail(bytes)))

\* bytes is a well-formed UTF-8 sequence of one- and two-byte forms.
RECURSIVE IsUtf8(_)
IsUtf8(bytes) ==
    \/ bytes = <<>>
    \/ bytes[1] \in 0..127 /\ IsUtf8(Tail(bytes))
    \/ /\ Len(bytes) >= 2
       /\ bytes[1] \in 194..223
       /\ bytes[2] \in 128..191
       /\ IsUtf8(Tail(Tail(bytes)))

\* C7: a pushToTopic(message) call made after a setup has completed invokes
\* publish exactly once, with the configured exchange name, the topic given
\* at construction and the UTF-8 bytes of message; once publish has returned
\* the call returns true, having emitted exactly one `system` event, whose
\* payload is { pushResult: what publish returned, message: message }, and
\* no other event.
C7_PushAfterSetup ==
    \A p \in DOMAIN pushes :
        pushes[p].at.setup =>
            LET log == pushes[p].log
            IN  /\ Calls(log, "publish") = {1}
                /\ log[1].on # NoChannel
                /\ Len(log[1].args) = 3
                /\ log[1].args[1] = args.configuration.exchange.name
                /\ log[1].args[2] = args.topic
                /\ IsUtf8(log[1].args[3])
                /\ Utf8Decode(log[1].args[3]) = pushes[p].message
                /\ Emits(log, "error") = {}
                /\ pushes[p].pc = "publish" =>
                      /\ Len(log) = 1
                      /\ pushes[p].ret = "pending"
                /\ pushes[p].pc = "returned" =>
                      /\ pushes[p].ret = "true"
                      /\ Len(log) = 3
                      /\ IsRet(log[2], "publish")
                      /\ IsEmit(log[3], "system")
                      /\ log[3].payload = [pushResult |-> log[2].value,
                                           message |-> pushes[p].message]

\* A push of a non-ASCII message, begun after setup completed, has returned.
C7_Witness ==
    \E p \in DOMAIN pushes :
        /\ pushes[p].at.setup
        /\ pushes[p].pc = "returned"
        /\ pushes[p].message = <<233>>

\* C8: when a step of the constructor's setup fails, the setup ends there: no
\* later step is invoked, no setup `system` event is emitted, consume is not
\* attached, and the constructor's catch emits exactly one `error` event,
\* which carries the failure's message.
C8_SetupAborts ==
    \A r \in CtorRuns :
        runs[r].pc = "failed" =>
            LET log == runs[r].log
                last == log[Len(log)]
            IN  /\ last.op = "ret" /\ ~last.ok
                /\ \E k \in DOMAIN SetupSteps :
                      /\ SetupSteps[k] = last.name
                      /\ SetupCalls(log) = SubSeq(SetupSteps, 1, k)
                /\ Emits(log, "system") = {}
                /\ Calls(log, "consume") = {}
                /\ consumers = <<>>
                /\ Cardinality(Emits(ctorLog, "error")) = 1
                /\ \A i \in Emits(ctorLog, "error") :
                      ctorLog[i].payload = last.value.message

\* bindQueue, the last step of the constructor's setup, failed.
C8_Witness ==
    \E r \in CtorRuns :
        /\ runs[r].pc = "failed"
        /\ IsRet(runs[r].log[Len(runs[r].log)], "bindQueue")

\* C9: a client constructed with a valid configuration invokes connect
\* exactly once, with that configuration; when connect fails it emits one
\* `error` event, never connects again and never invokes createChannel.
C9_ConnectOnce ==
    /\ ctor \in {"connecting", "connected", "failed"} =>
          /\ Calls(ctorLog, "connect") = {1}
          /\ ctorLog[1].args = <<args.configuration>>
    /\ ctor = "failed" =>
          /\ Cardinality(Emits(ctorLog, "error")) = 1
          /\ \A r \in DOMAIN runs : Calls(runs[r].log, "createChannel") = {}
          /\ channel = NoChannel

\* connect failed and the caller went on using the client.
C9_Witness ==
    /\ ctor = "failed"
    /\ Len(pushes) >= 1

\* C10 (as claimed): every error the Connection signals after connect
\* succeeded is re-emitted as an `error` event of the client.
C10_ConnectionErrorsReEmitted ==
    \A e \in DOMAIN connErrors : Emits(connErrors[e].log, "error") # {}

\* C11 (as claimed): for a delivery whose body parses, whatever fields the
\* record carries, the `message` event's `message` field is the parsed body
\* and every other field of the event is the record's.
C11_MessageEventFields ==
    \A d \in WellFormed :
        LET msg == deliveries[d].msg
            log == deliveries[d].log
        IN  \A i \in Emits(log, "message") :
                /\ DOMAIN log[i].payload = DOMAIN msg \cup {"message"}
                /\ log[i].payload.message = JSONParse(msg.content).value
                /\ \A k \in DOMAIN msg \ {"message"} : log[i].payload[k] = msg[k]

\* C12: the `system` event a setup emits when it completes carries exactly
\* the value its assertQueue step resolved with, and is its only `system`
\* event.
C12_SystemPayload ==
    \A r \in DOMAIN runs :
        LET log == runs[r].log
        IN  /\ Cardinality(Emits(log, "system")) = IF runs[r].pc = "done" THEN 1 ELSE 0
            /\ \A i \in Emits(log, "system") :
                  \E j \in 1..(i - 1) :
                      /\ IsRet(log[j], "assertQueue")
                      /\ log[j].ok
                      /\ log[i].payload = log[j].value

\* A setup whose assertQueue reported five waiting messages has completed.
C12_Witness ==
    \E r \in DOMAIN runs :
        /\ runs[r].pc = "done"
        /\ runs[r].result.messageCount = 5

\* Something was emitted or signalled on the client.
AnyActivity ==
    \/ ctorLog # <<>>
    \/ runs # <<>>
    \/ pushes # <<>>
    \/ deliveries # <<>>
    \/ consumers # <<>>
    \/ connErrors # <<>>
    \/ chanErrors # <<>>

\* C13: with an absent configuration the constructor throws before connect
\* is invoked: nothing is ever emitted, and no Connection or Channel is
\* created.
C13_AbsentConfiguration ==
    ~args.configuration.present =>
        /\ ctor \in {"new", "threw"}
        /\ ~AnyActivity
        /\ mqConnection = "undefined"
        /\ connection # "conn"
        /\ channel = NoChannel

\* The constructor threw.
C13_Witness == ctor = "threw"

ListenerThrew == {d \in DOMAIN deliveries : deliveries[d].threw}

C16_ConsumeOncePerChannel ==
    /\ \A i, j \in DOMAIN consumers : consumers[i] = consumers[j] => i = j
    /\ \A r \in DOMAIN runs : \A i \in Calls(runs[r].log, "consume") :
          /\ CompletedBefore(runs[r].log, "bindQueue", i)
          /\ \E j \in 1..(i - 1) : IsEmit(runs[r].log[j], "system")
    /\ opts.consume # "true" =>
          /\ consumers = <<>>
          /\ \A r \in DOMAIN runs : Calls(runs[r].log, "consume") = {}
          /\ \A d \in DOMAIN deliveries : Emits(deliveries[d].log, "message") = {}

\* C17 (as claimed): over any sequence of operations createChannel is invoked
\* at most once, at most one Channel is created, and the stored Channel is
\* the one that was created.
C17_OneChannel ==
    /\ Cardinality({r \in DOMAIN runs : Calls(runs[r].log, "createChannel") # {}}) <= 1
    /\ Cardinality(Channels) <= 1
    /\ channel # NoChannel => Channels = {channel}

\* The order of the entries of the deliveries' handling: those of an earlier
\* delivery all precede those of a later one, and a delivery's ack comes
\* after its event and closes its handling.
InDispatchOrder(trace) ==
    \A i \in DOMAIN trace :
        /\ i > 1 => trace[i - 1].tag <= trace[i].tag
        /\ IsCall(trace[i].entry, "ack") =>
              /\ i > 1
              /\ trace[i - 1].tag = trace[i].tag
              /\ trace[i - 1].entry.op = "emit"
              /\ i < Len(trace) => trace[i + 1].tag > trace[i].tag

\* C19: deliveries are handled one at a time in dispatch order: the event
\* and the ack of an earlier delivery precede those of a later one, and the
\* ack of a delivery follows its event.
C19_OneAtATime ==
    /\ InDispatchOrder(consumed)
    /\ \A d \in DOMAIN deliveries :
          /\ deliveries[d].msg.fields.deliveryTag = d
          /\ \E i \in DOMAIN consumed :
                consumed[i].tag = d /\ consumed[i].entry.op = "emit"
          /\ opts.acknowledge = "true" =>
                \E i \in DOMAIN consumed :
                    consumed[i].tag = d /\ IsCall(consumed[i].entry, "ack")

\* Two deliveries were handled and acknowledged.
C19_Witness ==
    /\ opts.acknowledge = "true"
    /\ Len(deliveries) >= 2

\* C20 (as claimed): every ack is issued on the Channel that delivered the
\* message, also when connectToTopic ran more than once.
C20_AckOnDeliveringChannel ==
    \A d \in DOMAIN deliveries :
        \A i \in Calls(deliveries[d].log, "ack") :
            deliveries[d].log[i].on = deliveries[d].on

Spec == Init /\ [][Next]_vars

\* The same client when the caller also calls connectToTopic itself.
NextRerun ==
    /\ \/ Next
       \/ connectToTopic
    /\ Ops' <= MaxRerunOps

\* A client constructed with a configuration and the default options.
InitRerun ==
    /\ Init
    /\ args.configuration.present
    /\ ~args.opts.given

SpecRerun == InitRerun /\ [][NextRerun]_vars

\* The same client when the driver's delivery records may carry a field
\* named `message`.
NextRecords ==
    /\ \/ Next
       \/ \E i \in DOMAIN consumers : \E body \in Bodies : \E t \in BOOLEAN :
             deliverCarryingMessage(i, body, t)
    /\ Ops' <= MaxRerunOps

SpecRecords == InitRerun /\ [][NextRecords]_vars

\* The program when every pending promise is eventually settled: mq.connect
\* and each of the four setup steps either resolves or rejects.
NextLive ==
    /\ Next
    /\ Ops' <= MaxLiveOps

Settles ==
    /\ WF_vars(connectResolved)
    /\ WF_vars(\E r \in DOMAIN runs : createChannelResolved(r))
    /\ WF_vars(\E r \in DOMAIN runs : assertExchangeResolved(r))
    /\ WF_vars(\E r \in DOMAIN runs : \E res \in QueueResults(topic) :
                  assertQueueResolved(r, res))
    /\ WF_vars(\E r \in DOMAIN runs : bindQueueResolved(r))

SpecLive == Init /\ [][NextLive]_vars /\ Settles

\* mq.connect or one of the setup steps rejected.
SomeStepRejected ==
    \/ ctor = "failed"
    \/ \E r \in CtorRuns : runs[r].pc = "failed"

\* The constructor's setup emitted its `system` event and, when opts.consume
\* is true, attached the consumer.
SetupComplete ==
    \E r \in CtorRuns :
        /\ Emits(runs[r].log, "system") # {}
        /\ opts.consume = "true" =>
              /\ Calls(runs[r].log, "consume") # {}
              /\ consumers # <<>>

\* C18: once mq.connect is invoked, if it and the four setup steps each
\* complete successfully then the setup's `system` event is eventually
\* emitted and, when opts.consume is true, the consumer is attached.
C18_SetupEventuallyCompletes ==
    (ctor = "connecting") ~> (SomeStepRejected \/ SetupComplete)

\* A setup ran to its end and attached the consumer.
C18_Witness ==
    /\ opts.consume = "true"
    /\ SetupComplete
    /\ ~SomeStepRejected
====
